---- MODULE Spec2Model ----
(***************************************************************************)
(* Model of the BinanceSmartChain adapter (crypto/api/bsc.py), the address *)
(* helpers it uses (crypto/utils/web3.py) and the recursion of the CLI     *)
(* driver (crypto/scripts/bsc_info.py).                                    *)
(*                                                                         *)
(* The chain and the explorer are a world chosen in Init and fixed from    *)
(* then on: deployed bytecode, explorer Proxy flag, verified ABI, the      *)
(* result of an implementation() call and the EIP-1967 storage word, per   *)
(* address.                                                                *)
(* The adapter object is the mutable state.  Every outbound call an        *)
(* operation makes is recorded, in order, in `trace`.                      *)
(***************************************************************************)
EXTENDS Integers, Sequences, FiniteSets, TLC

\* Number of non-zero addresses on the modelled chain.
NumAddr == 2
\* Largest value of the 12 high-order bytes of a 32-byte storage word.
MaxHi == 1

Addr == 0..NumAddr
AddrSpace == NumAddr + 1

\* Optional values: Python None and a present value.
None == <<>>
Some(x) == <<x>>
Val(o) == o[1]
\* Python truthiness of None / a non-empty str / True.
Truthy(o) == o # None

VARIABLES
  \* ---- the world (never changes) ----
  code,            \* eth.get_code(a): "" or bytecode
  Proxy,           \* explorer metadata info[0]['Proxy'] for a: "0" or "1"
  abiOf,           \* explorer get_contract_abi(a): the ABI's function set, or None when the explorer call fails its assertion
  callResult,      \* eth_call of implementation() dispatched to a: None when it reverts, else the returned address number
  storage,         \* eth.get_storage_at(a, _IMPLEMENTATION_SLOT): a 32-byte word
  \* ---- the adapter object ----
  _address, _implementation, _contract, _info, error,
  \* ---- observation of the last operation ----
  trace,           \* outbound calls of the last operation, in order
  codeConfirmed,   \* address numbers for which get_code returned bytecode
  op,              \* the last operation run
  ret,             \* its return value
  exc,             \* the exception it raised, "" when none
  \* ---- control of the two unbounded drivers ----
  pc,              \* "idle", "resolve_proxies" or "print_info_address"
  override         \* the mode of the running resolve_proxies loop

world == <<code, Proxy, abiOf, callResult, storage>>
object == <<_address, _implementation, _contract, _info, error>>
vars == <<code, Proxy, abiOf, callResult, storage,
          _address, _implementation, _contract, _info, error,
          trace, codeConfirmed, op, ret, exc, pc, override>>

----------------------------------------------------------------------------
\* crypto/utils/web3.py

ACCEPTABLE_EMPTY_STRINGS == {"0x", ""}

\* An address string: its numeric value and whether it is in checksummed
\* (mixed-case) form or in the raw lower-case hex form.
Address(n, cs) == [n |-> n, checksummed |-> cs]

to_int(value) == value.n

is_zero_address(address) == to_int(address) = 0

is_empty(data) == data \in ACCEPTABLE_EMPTY_STRINGS

\* The low 20 bytes of the word, as a lower-case hex string.
hexbytes_to_address(hexbytes) == Address(hexbytes % AddrSpace, FALSE)

----------------------------------------------------------------------------
\* crypto/api/bsc.py

checksum(address) == [address EXCEPT !.checksummed = TRUE]

Event(api, n, result) == [api |-> api, address |-> n, result |-> result]

\* The adapter state threaded through the methods.
Self == [_address |-> _address, _implementation |-> _implementation,
         _contract |-> _contract, _info |-> _info, error |-> error,
         trace |-> <<>>, codeConfirmed |-> codeConfirmed]

Log(s, e) == [s EXCEPT !.trace = Append(@, e)]

Return(s, r) == [s |-> s, ret |-> r, exc |-> ""]
Raise(s, e) == [s |-> s, ret |-> None, exc |-> e]

get_contract_info(s) ==
  IF s._info = None
  THEN LET s1 == Log(s, Event("get_contract_source_code", s._address.n, Proxy[s._address.n]))
       IN Return([s1 EXCEPT !._info = Some(s._address.n)], Some(s._address.n))
  ELSE Return(s, s._info)

_is_contract_address(s, address) ==
  LET data == code[address.n]
      s1 == Log(s, Event("get_code", address.n, data))
  IN Return([s1 EXCEPT !.codeConfirmed = IF is_empty(data) THEN @ ELSE @ \cup {address.n}],
            ~is_empty(data))

_is_proxy_address(s, address) ==
  IF address = s._address
  THEN LET r == get_contract_info(s)
       IN Return(r.s, Proxy[Val(r.ret)] # "0")
  ELSE Return(Log(s, Event("get_contract_source_code", address.n, Proxy[address.n])),
              Proxy[address.n] # "0")

\* The outcome of self.contract.get_function_by_signature('implementation()')().call()
\* on a contract bound to `c.address` with the ABI fetched for `c.abi`.
implementation_call(c) ==
  IF "implementation()" \notin Val(abiOf[c.abi]) THEN "ValueError"
  ELSE IF callResult[c.address.n] = None THEN "ContractLogicError"
  ELSE "ok"

\* resolve_implementation reading the storage slot whatever the outcome of the
\* implementation() call.
resolve_implementation_reads_slot_always(s) ==
  IF Truthy(s._contract)
  THEN LET c == Val(s._contract)
           outcome == implementation_call(c)
           s1 == Log(s, Event("implementation()", c.address.n, outcome))
           s2 == Log(s1, Event("get_storage_at", s._address.n, "word"))
           slot == hexbytes_to_address(storage[s._address.n])
           implementation == IF is_zero_address(slot) THEN None ELSE Some(slot)
       IN IF Truthy(implementation)
          THEN Return([s2 EXCEPT !._implementation = checksum(Val(implementation))],
                      Some(checksum(Val(implementation))))
          ELSE Return(s2, None)
  ELSE Return(s, None)

resolve_implementation(s) ==
  IF Truthy(s._contract)
  THEN LET c == Val(s._contract)
           outcome == implementation_call(c)
           s1 == Log(s, Event("implementation()", c.address.n, outcome))
           caught == outcome \in {"ValueError", "ContractLogicError"}
           s2 == IF caught
                 THEN Log(s1, Event("get_storage_at", s._address.n, "word"))
                 ELSE s1
           slot == hexbytes_to_address(storage[s._address.n])
           implementation ==
             IF caught
             THEN IF is_zero_address(slot) THEN None ELSE Some(slot)
             ELSE Some(Address(Val(callResult[c.address.n]), TRUE))
       IN IF Truthy(implementation)
          THEN Return([s2 EXCEPT !._implementation = checksum(Val(implementation))],
                      Some(checksum(Val(implementation))))
          ELSE Return(s2, None)
  ELSE Return(s, None)

is_contract(s) ==
  IF s._contract # None THEN Return(s, TRUE) ELSE _is_contract_address(s, s._address)

is_proxy(s) ==
  LET p == _is_proxy_address(s, s._address)
  IN IF p.ret THEN Return(p.s, Some(TRUE)) ELSE resolve_implementation(p.s)

\* _get_contract(address, abi): abi is None (fetch it for `address`) or the
\* address number the ABI was already fetched for.
_get_contract(s, address, abi) ==
  IF abi = None
  THEN LET s1 == Log(s, Event("get_contract_abi", address.n,
                             IF abiOf[address.n] = None THEN "AssertionError" ELSE "ok"))
       IN IF abiOf[address.n] = None
          THEN Raise(s1, "AssertionError")
          ELSE Return(s1, Some([address |-> address, abi |-> address.n]))
  ELSE Return(s, Some([address |-> address, abi |-> Val(abi)]))

\* _set_contract binding without asking is_contract first.
_set_contract_without_code_check(s) ==
  IF s._contract = None
  THEN LET g == _get_contract(s, s._address, None)
       IN IF g.exc # "" THEN Raise(g.s, g.exc)
          ELSE Return([g.s EXCEPT !._contract = g.ret], None)
  ELSE Return(s, None)

_set_contract(s) ==
  IF s._contract = None
  THEN LET ic == is_contract(s)
       IN IF ic.ret
          THEN LET g == _get_contract(ic.s, ic.s._address, None)
               IN IF g.exc # "" THEN Raise(g.s, g.exc)
                  ELSE Return([g.s EXCEPT !._contract = g.ret], None)
          ELSE Return(ic.s, None)
  ELSE Return(s, None)

\* The override branch keeping the cached metadata of the old address.
resolve_proxy_override_keeps_info(s) ==
  LET s1 == [s EXCEPT !._address = s._implementation,
                      !._contract = None]
  IN _set_contract(s1)

\* resolve_proxy, override branch: the implementation replaces the active
\* address, the caches are dropped and the contract is loaded again.
resolve_proxy_override(s) ==
  LET s1 == [s EXCEPT !._address = s._implementation,
                      !._contract = None,
                      !._info = None]
  IN _set_contract(s1)

\* The non-override branch binding the contract at the implementation address.
resolve_proxy_bind_at_implementation(s) ==
  LET failed == abiOf[s._implementation.n] = None
      s1 == Log(s, Event("get_contract_abi", s._implementation.n,
                         IF failed THEN "AssertionError" ELSE "ok"))
  IN IF failed
     THEN Raise(s1, "AssertionError")
     ELSE LET g == _get_contract(s1, s1._implementation, Some(s1._implementation.n))
          IN Return([g.s EXCEPT !._contract = g.ret], None)

\* resolve_proxy, non-override branch: the implementation's ABI is fetched and
\* bound at the active address.
resolve_proxy_bind(s) ==
  LET failed == abiOf[s._implementation.n] = None
      s1 == Log(s, Event("get_contract_abi", s._implementation.n,
                         IF failed THEN "AssertionError" ELSE "ok"))
  IN IF failed
     THEN Raise(s1, "AssertionError")
     ELSE LET g == _get_contract(s1, s1._address, Some(s1._implementation.n))
          IN Return([g.s EXCEPT !._contract = g.ret], None)

\* resolve_proxy keeping the error of an earlier call.
resolve_proxy_keeps_error(s, ovr) ==
  LET ri == resolve_implementation(s)
  IN IF Truthy(ri.ret)
     THEN LET b == IF ovr THEN resolve_proxy_override(ri.s) ELSE resolve_proxy_bind(ri.s)
          IN IF b.exc = "AssertionError"
             THEN Return([b.s EXCEPT !.error = Some(b.exc)], FALSE)
             ELSE Return(b.s, TRUE)
     ELSE Return(ri.s, FALSE)

resolve_proxy(s, ovr) ==
  LET s0 == [s EXCEPT !.error = None]
      ri == resolve_implementation(s0)
  IN IF Truthy(ri.ret)
     THEN LET b == IF ovr THEN resolve_proxy_override(ri.s) ELSE resolve_proxy_bind(ri.s)
          IN IF b.exc = "AssertionError"
             THEN Return([b.s EXCEPT !.error = Some(b.exc)], FALSE)
             ELSE Return(b.s, TRUE)
     ELSE Return(ri.s, FALSE)

----------------------------------------------------------------------------
\* crypto/scripts/bsc_info.py

\* One activation of print_info_address, print_info_contract included, up to
\* its return or its recursive call.  ret is TRUE when it recurses.
print_info_address(s) ==
  LET c1 == is_contract(s)
      bal == Log(c1.s, Event("get_bnb_balance", c1.s._address.n, "ok"))
      c2 == is_contract(bal)
  IN IF c2.ret
     THEN LET name == get_contract_info(c2.s)
              ip == is_proxy(name.s)
          IN IF Truthy(ip.ret)
             THEN LET rp == resolve_proxy(ip.s, TRUE)
                  IN Return(rp.s, TRUE)
             ELSE Return(ip.s, FALSE)
     ELSE Return(c2.s, FALSE)

----------------------------------------------------------------------------
\* The state machine

Update(r, o) ==
  /\ _address' = r.s._address
  /\ _implementation' = r.s._implementation
  /\ _contract' = r.s._contract
  /\ _info' = r.s._info
  /\ error' = r.s.error
  /\ trace' = r.s.trace
  /\ codeConfirmed' = r.s.codeConfirmed
  /\ op' = o
  /\ ret' = r.ret
  /\ exc' = r.exc
  /\ UNCHANGED world

\* The address an address of the modelled chain may delegate to: the chain is
\* a ring 1 -> 2 -> ... -> NumAddr -> 1 whose links the world may cut.
Successor(a) == (a % NumAddr) + 1

\* An address without bytecode has no storage, no verified source and answers
\* no call.
NoCode ==
  [code |-> "", Proxy |-> "0", abiOf |-> None, callResult |-> None, storage |-> 0]

\* The 12 high-order bytes of the slot word of address a.  They are no part
\* of the address held in the slot; the modelled chain leaves them dirty at
\* some addresses and clean at others.
HighBytes(a) == a % (MaxHi + 1)

\* What the chain and the explorer may hold for address a.  A contract whose
\* source is not verified is never bound, so its call result and storage are
\* never read.  A verified contract answers implementation() only when its
\* ABI declares it; the call then reverts or returns the zero address or the
\* successor.
Configs(a) ==
  {NoCode}
  \cup [code : {"0x6080"}, Proxy : {"0", "1"}, abiOf : {None},
        callResult : {None}, storage : {0}]
  \cup [code : {"0x6080"}, Proxy : {"0", "1"}, abiOf : {Some({})},
        callResult : {None},
        storage : {HighBytes(a) * AddrSpace, HighBytes(a) * AddrSpace + Successor(a)}]
  \cup [code : {"0x6080"}, Proxy : {"0", "1"}, abiOf : {Some({"implementation()"})},
        callResult : {None, Some(0), Some(Successor(a))},
        storage : {HighBytes(a) * AddrSpace, HighBytes(a) * AddrSpace + Successor(a)}]

\* Configuration c holds a reference to address b.
PointsTo(c, b) == c.callResult = Some(b) \/ c.storage % AddrSpace = b

\* The worlds over addresses 0..n.  Address n > 1 is referenced by its
\* predecessor only; when it is not, nothing ever reads it and it is left
\* without code.
RECURSIVE Worlds(_)
Worlds(n) ==
  IF n = 0 THEN {(0 :> NoCode)}
  ELSE UNION {{w @@ (n :> c) :
                 c \in IF n = 1 \/ PointsTo(w[n - 1], n)
                       THEN Configs(n) ELSE {NoCode}} :
              w \in Worlds(n - 1)}

Init ==
  /\ \E w \in Worlds(NumAddr) :
       /\ code = [a \in Addr |-> w[a].code]
       /\ Proxy = [a \in Addr |-> w[a].Proxy]
       /\ abiOf = [a \in Addr |-> w[a].abiOf]
       /\ callResult = [a \in Addr |-> w[a].callResult]
       /\ storage = [a \in Addr |-> w[a].storage]
  \* __init__
  /\ _address = checksum(Address(1, FALSE))
  /\ _implementation = checksum(Address(1, FALSE))
  /\ _contract = None
  /\ _info = None
  /\ error = None
  /\ trace = <<>>
  /\ codeConfirmed = {}
  /\ op = "__init__"
  /\ ret = None
  /\ exc = ""
  /\ pc = "idle"
  /\ override = FALSE

Enter ==
  /\ pc = "idle"
  /\ Update(_set_contract(Self), "__enter__")
  /\ UNCHANGED <<pc, override>>

IsProxy ==
  /\ pc = "idle"
  /\ Update(is_proxy(Self), "is_proxy")
  /\ UNCHANGED <<pc, override>>

ResolveImplementation ==
  /\ pc = "idle"
  /\ Update(resolve_implementation(Self), "resolve_implementation")
  /\ UNCHANGED <<pc, override>>

ResolveProxy ==
  /\ pc = "idle"
  /\ \E ovr \in BOOLEAN :
       Update(resolve_proxy(Self, ovr),
              IF ovr THEN "resolve_proxy(override=True)" ELSE "resolve_proxy(override=False)")
  /\ UNCHANGED <<pc, override>>

\* resolve_proxies: the call runs the first loop iteration, each step one more.
ResolveProxiesCall ==
  /\ pc = "idle"
  /\ \E ovr \in BOOLEAN :
       LET r == resolve_proxy(Self, ovr)
       IN /\ Update(r, IF ovr THEN "resolve_proxies(override=True)"
                              ELSE "resolve_proxies(override=False)")
          /\ pc' = IF r.ret THEN "resolve_proxies" ELSE "idle"
          /\ override' = (r.ret /\ ovr)

ResolveProxiesStep ==
  /\ pc = "resolve_proxies"
  /\ LET r == resolve_proxy(Self, override)
     IN /\ Update(r, IF override THEN "resolve_proxies(override=True)"
                                 ELSE "resolve_proxies(override=False)")
        /\ pc' = IF r.ret THEN "resolve_proxies" ELSE "idle"
        /\ override' = (r.ret /\ override)

\* main: print_info_address is called on the adapter the with statement has
\* just entered; the call runs the first activation, each step the next
\* recursive one.
PrintInfoAddressCall ==
  /\ pc = "idle"
  /\ op = "__enter__"
  /\ exc = ""
  /\ LET r == print_info_address(Self)
     IN /\ Update(r, "print_info_address")
        /\ pc' = IF r.ret THEN "print_info_address" ELSE "idle"
  /\ UNCHANGED override

PrintInfoAddressStep ==
  /\ pc = "print_info_address"
  /\ LET r == print_info_address(Self)
     IN /\ Update(r, "print_info_address")
        /\ pc' = IF r.ret THEN "print_info_address" ELSE "idle"
  /\ UNCHANGED override

Next ==
  \/ Enter
  \/ IsProxy
  \/ ResolveImplementation
  \/ ResolveProxy
  \/ ResolveProxiesCall
  \/ ResolveProxiesStep
  \/ PrintInfoAddressCall
  \/ PrintInfoAddressStep

Spec == Init /\ [][Next]_vars

----------------------------------------------------------------------------
\* Properties

ResolveProxyOps ==
  {"resolve_proxy(override=True)", "resolve_proxy(override=False)",
   "resolve_proxies(override=True)", "resolve_proxies(override=False)"}

OverrideOps ==
  {"resolve_proxy(override=True)", "resolve_proxies(override=True)", "print_info_address"}

\* The non-zero addresses the chain holds as a possible delegate of a.
Targets(a) ==
  ((IF callResult[a] = None THEN {} ELSE {Val(callResult[a])})
   \cup {storage[a] % AddrSpace}) \ {0}

RECURSIVE ReachIn(_, _)
ReachIn(S, k) ==
  IF k = 0 THEN S ELSE ReachIn(S \cup UNION {Targets(a) : a \in S}, k - 1)

\* The delegation chains of the world are finite and acyclic.
Acyclic == \A a \in Addr : a \notin ReachIn(Targets(a), NumAddr)

\* The last outbound call of the last operation was an explorer ABI fetch that
\* failed its assertion.
AbiFetchFailed(t) ==
  /\ Len(t) > 0
  /\ t[Len(t)].api = "get_contract_abi"
  /\ t[Len(t)].result = "AssertionError"

\* C1: resolve_implementation never yields the zero address: a zero address,
\* from the implementation() call or from the storage slot, is "no
\* implementation", and _implementation is never set to it.
C1_ZeroAddressIsNoImplementation ==
  /\ ~is_zero_address(_implementation)
  /\ (op = "resolve_implementation" /\ Truthy(ret)) => ~is_zero_address(Val(ret))

\* A non-zero implementation address is resolvable for the bound contract: from
\* the implementation() call, or from the storage slot when the call fails.
NonZeroImplementation ==
  LET c == Val(_contract)
      callable == /\ "implementation()" \in Val(abiOf[c.abi])
                  /\ callResult[c.address.n] # None
  IN \/ callable /\ Val(callResult[c.address.n]) # 0
     \/ ~callable /\ storage[_address.n] % AddrSpace # 0

\* C2: with a contract loaded, is_proxy is truthy exactly when the explorer
\* Proxy flag of the active address is set or a non-zero implementation
\* address can be resolved.
C2_IsProxyIffFlagOrImplementation ==
  (op = "is_proxy" /\ _contract # None) =>
    (Truthy(ret) <=> (Proxy[_address.n] # "0" \/ NonZeroImplementation))

C4_NonOverrideKeepsAddress ==
  [][/\ (_address' # _address => op' \in OverrideOps)
     /\ (op' = "resolve_proxy(override=False)" /\ ret' = TRUE =>
           _contract' = Some([address |-> _address, abi |-> _implementation'.n]))]_vars

C4_Witness ==
  /\ op = "resolve_proxy(override=False)"
  /\ ret = TRUE
  /\ _address.n = 1
  /\ _contract = Some([address |-> _address, abi |-> 2])

\* C5: an active address without bytecode is not a contract, has no contract
\* bound, and no explorer metadata or ABI call is issued for it.
C5_NoCodeNoExplorerCall ==
  code[_address.n] = "" =>
    /\ ~is_contract(Self).ret
    /\ _contract = None
    /\ \A i \in 1..Len(trace) :
         trace[i].address = _address.n =>
           trace[i].api \notin {"get_contract_source_code", "get_contract_abi"}

\* C6: a bound contract dispatches to the active address, and bytecode was
\* confirmed at the active address before it was bound.
C6_BoundOnlyAfterCodeConfirmed ==
  _contract # None =>
    /\ Val(_contract).address = _address
    /\ _address.n \in codeConfirmed
    /\ ~is_empty(code[_address.n])

C6_Witness ==
  /\ _contract # None
  /\ _address.n = 2
  /\ codeConfirmed = {1, 2}

\* C7: an operation that runs resolve_proxy (resolve_proxy, a resolve_proxies
\* iteration, a print_info_address activation that recurses) leaves error set
\* exactly when its ABI fetch failed with the caught AssertionError, and
\* resolve_proxy then returns False without raising; no other operation
\* touches error.
C7_ErrorIffLastResolveFailed ==
  [][IF op' \in ResolveProxyOps
     THEN /\ (error' # None <=> AbiFetchFailed(trace'))
          /\ (AbiFetchFailed(trace') => ret' = FALSE /\ exc' = "")
     ELSE IF op' = "print_info_address" /\ ret' = TRUE
     THEN error' # None <=> AbiFetchFailed(trace')
     ELSE error' = error]_vars

C7_Witness ==
  /\ op = "resolve_proxy(override=False)"
  /\ error = Some("AssertionError")
  /\ ret = FALSE
  /\ exc = ""

\* C8: the storage slot is read only directly after the implementation() call
\* on the bound contract raised ValueError or ContractLogicError.
C8_SlotOnlyAfterCallError ==
  \A i \in 1..Len(trace) :
    trace[i].api = "get_storage_at" =>
      /\ i > 1
      /\ trace[i - 1].api = "implementation()"
      /\ trace[i - 1].result \in {"ValueError", "ContractLogicError"}

C8_Witness ==
  /\ op = "resolve_implementation"
  /\ Len(trace) = 2
  /\ trace[1].result = "ContractLogicError"
  /\ trace[2].api = "get_storage_at"

\* C9: on a finite acyclic delegation chain a running resolve_proxies
\* terminates, in both modes: the world is fixed and the loop deterministic,
\* so no successful iteration leaves the adapter as it found it (the next
\* iteration would repeat it, and so without end).
C9_ResolveProxiesTerminates ==
  [][(Acyclic /\ pc = "resolve_proxies" /\ pc' = "resolve_proxies")
       => object' # object]_vars

\* C10: on a finite acyclic delegation chain every recursive call of
\* print_info_address runs on an active address further along the chain than
\* the activation that made it.
C10_RecursionAdvances ==
  [][(Acyclic /\ pc = "print_info_address" /\ pc' = "print_info_address")
       => _address' # _address]_vars
====
